---- MODULE Spec2Model ----
(***************************************************************************)
(* A model of the Patricia Merkle trie of src/src: the node tree owned by  *)
(* PatriciaMerkleTrie, its insert / get / delete / root_hash operations    *)
(* (trie.rs), the domain-separated hashes (hash.rs), the key helpers       *)
(* (utils.rs) and Merkle proof generation and verification (proof.rs).     *)
(*                                                                         *)
(* Byte vectors are sequences of naturals.  An Option is a sequence of     *)
(* length 0 (None) or 1 (Some).  A Result is a record [k, v] with k one of *)
(* "Ok", "Err", "Panic"; "Panic" is an index out of range that aborts the  *)
(* call (the receiver is left as it was before the call).                  *)
(* SHA-256 is taken to be collision free: the digest of a byte string is   *)
(* the pair <<"sha256", byte string>>.                                     *)
(* The node_store side table of the trie is written by every mutation and  *)
(* read by none; only the hash_node call that precedes each of its inserts *)
(* (and may fail) is part of the model.                                    *)
(***************************************************************************)
EXTENDS Integers, Sequences, FiniteSets, TLC

VARIABLES root, prev, last, nops, hist

vars == <<root, prev, last, nops, hist>>

(***************************************************************************)
(* Bounds of the model.                                                    *)
(***************************************************************************)
\* key and selector bytes are 0..MaxByte
MaxByte == 1
\* the valid keys tried have 1..MaxKeyLen bytes
MaxKeyLen == 2
\* the values tried are the empty value and the one-byte values 1..MaxVal
MaxVal == 1
\* number of insert / delete calls in one behaviour
MaxOps == 4
\* number of pairs inserted in a behaviour of SpecBuild
MaxPairs == 3
\* the proofs handed to verify_proof on its own have 0..MaxSteps steps
MaxSteps == 2
\* the keys inserted in a behaviour of SpecDeep have 1..MaxDeepLen bytes
MaxDeepLen == 3
\* number of insert calls in a behaviour of SpecDeep
MaxDeepOps == 3

\* utils.rs: `if key.len() > 32`
MaxKeyBytes == 32
\* hash.rs: a SHA-256 digest has 32 bytes
DigestLen == 32
\* hash.rs: lengths are written as one byte (`len() as u8`)
U8 == 256

Bytes == 0..MaxByte
Keys == UNION {[1..n -> Bytes] : n \in 1..MaxKeyLen}
Values == {<<>>} \cup {<<b>> : b \in 1..MaxVal}
EmptyKey == <<>>
TooLongKey == [i \in 1..(MaxKeyBytes + 1) |-> 0]
InputKeys == Keys \cup {EmptyKey, TooLongKey}

(***************************************************************************)
(* Option and Result.                                                      *)
(***************************************************************************)
IsOk(r) == r.k = "Ok"
Ok(v) == [k |-> "Ok", v |-> v]
Err(e) == [k |-> "Err", v |-> e]
Panic == [k |-> "Panic", v |-> "index out of bounds"]

None == <<>>
Some(v) == <<v>>
\* Option<V>::as_ref().map(|v| v.as_ref()).unwrap_or(&[])
unwrap_or_empty(o) == IF o = None THEN <<>> ELSE o[1]

\* the call observed last: its name, its arguments and its result
NoOp ==
    [op |-> "new", key |-> <<>>, value |-> <<>>, proof |-> <<>>, digest |-> <<>>,
     res |-> Ok(<<>>)]

Call(op, key, value, res) ==
    [op |-> op, key |-> key, value |-> value, proof |-> <<>>, digest |-> <<>>,
     res |-> res]

(***************************************************************************)
(* node.rs: the node tree.  children is a function from selector bytes.    *)
(***************************************************************************)
Empty == [t |-> "Empty"]
Leaf(key, value) == [t |-> "Leaf", key |-> key, value |-> value]
Branch(prefix, children, value) ==
    [t |-> "Branch", prefix |-> prefix, children |-> children, value |-> value]

\* HashMap::new, insert, remove
EmptyMap == <<>>
MapInsert(m, s, n) == [x \in (DOMAIN m) \cup {s} |-> IF x = s THEN n ELSE m[x]]
MapRemove(m, s) == [x \in (DOMAIN m) \ {s} |-> m[x]]

(***************************************************************************)
(* utils.rs                                                                *)
(***************************************************************************)
RECURSIVE common_prefix(_, _)
common_prefix(a, b) ==
    IF a = <<>> \/ b = <<>> THEN 0
    ELSE IF Head(a) # Head(b) THEN 0
    ELSE 1 + common_prefix(Tail(a), Tail(b))

\* one "nibble" per byte: the bytes are copied as they are (it never fails)
to_nibbles(bytes) == IF bytes = <<>> THEN <<>> ELSE bytes

\* a key check that is off by one at the upper limit
verify_key_off(key) ==
    IF key = <<>> THEN Err("InvalidKey")
    ELSE IF Len(key) >= MaxKeyBytes THEN Err("KeyTooLong")
    ELSE Ok(<<>>)

verify_key(key) ==
    IF key = <<>> THEN Err("InvalidKey")
    ELSE IF Len(key) > MaxKeyBytes THEN Err("KeyTooLong")
    ELSE Ok(<<>>)

\* a[from..] and a[..to] of Rust, 0-based bounds
SliceFrom(a, from) == SubSeq(a, from + 1, Len(a))
SliceTo(a, to) == SubSeq(a, 1, to)

(***************************************************************************)
(* hash.rs                                                                 *)
(***************************************************************************)
Sha256(data) == <<"sha256", data>>
hash_data(data) == Sha256(data)
hash_empty == hash_data(<<2>>)
\* Vec<u8>::len() of a byte vector that holds a digest (or nothing)
DigestBytes(h) == IF h = <<>> THEN 0 ELSE DigestLen

hash_leaf(key, value) ==
    IF key = <<>> THEN Err("InvalidKey")
    ELSE Ok(Sha256(<<0, Len(key) % U8>> \o key \o <<Len(value) % U8>> \o value))

\* sort_by_key(|&(k, _)| k): a stable insertion sort on the selector
RECURSIVE InsertSorted(_, _)
InsertSorted(s, e) ==
    IF s = <<>> THEN <<e>>
    ELSE IF s[Len(s)][1] <= e[1] THEN Append(s, e)
    ELSE Append(InsertSorted(SubSeq(s, 1, Len(s) - 1), e), s[Len(s)])

RECURSIVE sort_by_key(_)
sort_by_key(s) ==
    IF s = <<>> THEN <<>>
    ELSE InsertSorted(sort_by_key(SubSeq(s, 1, Len(s) - 1)), s[Len(s)])

RECURSIVE ChildrenBytes(_)
ChildrenBytes(sorted) ==
    IF sorted = <<>> THEN <<>>
    ELSE <<sorted[1][1], DigestBytes(sorted[1][2]) % U8, sorted[1][2]>>
         \o ChildrenBytes(Tail(sorted))

\* a branch hash that accepts an empty list of children
hash_branch_any(prefix, children_data, value) ==
    LET sorted_children == sort_by_key(children_data)
    IN Ok(Sha256(<<1, Len(prefix) % U8>> \o prefix
                 \o <<Len(sorted_children) % U8>>
                 \o ChildrenBytes(sorted_children)
                 \o <<Len(value) % U8>> \o value))

\* a branch hash over the children in the order they are handed in
hash_branch_unsorted(prefix, children_data, value) ==
    IF children_data = <<>> THEN Err("InvalidBranch")
    ELSE Ok(Sha256(<<1, Len(prefix) % U8>> \o prefix
                   \o <<Len(children_data) % U8>>
                   \o ChildrenBytes(children_data)
                   \o <<Len(value) % U8>> \o value))

hash_branch(prefix, children_data, value) ==
    IF children_data = <<>> THEN Err("InvalidBranch")
    ELSE LET sorted_children == sort_by_key(children_data)
         IN Ok(Sha256(<<1, Len(prefix) % U8>> \o prefix
                      \o <<Len(sorted_children) % U8>>
                      \o ChildrenBytes(sorted_children)
                      \o <<Len(value) % U8>> \o value))

(***************************************************************************)
(* trie.rs: hash_node                                                      *)
(***************************************************************************)
\* children.iter(): the order of a HashMap is unspecified; the selectors are
\* taken here from the largest to the smallest
RECURSIVE IterOrder(_)
IterOrder(S) ==
    IF S = {} THEN <<>>
    ELSE LET m == CHOOSE x \in S : \A y \in S : y <= x
         IN <<m>> \o IterOrder(S \ {m})

RECURSIVE hash_node(_)
hash_node(node) ==
    IF node.t = "Empty" THEN Ok(hash_empty)
    ELSE IF node.t = "Leaf"
    THEN hash_leaf(to_nibbles(node.key), unwrap_or_empty(node.value))
    ELSE LET order == IterOrder(DOMAIN node.children)
             hs == [i \in 1..Len(order) |-> hash_node(node.children[order[i]])]
             bad == {i \in 1..Len(order) : ~IsOk(hs[i])}
         IN IF bad # {}
            THEN hs[CHOOSE i \in bad : \A j \in bad : i <= j]
            ELSE hash_branch(to_nibbles(node.prefix),
                             [i \in 1..Len(order) |-> <<order[i], hs[i].v>>],
                             unwrap_or_empty(node.value))

\* `let hash = self.hash_node(&n)?; self.node_store.insert(hash, n.clone()); n`
Stored(n) == LET h == hash_node(n) IN IF IsOk(h) THEN Ok(n) ELSE h

(***************************************************************************)
(* trie.rs: insert                                                         *)
(***************************************************************************)
RECURSIVE insert_at(_, _, _, _)
insert_at(node, key, nibbles, value) ==
    IF node.t = "Empty" THEN Stored(Leaf(key, value))
    ELSE IF node.t = "Leaf" THEN
        LET existing_key == node.key
            existing_value == node.value
            existing_nibbles == to_nibbles(existing_key)
            prefix_len == common_prefix(existing_nibbles, nibbles)
        IN IF prefix_len = Len(existing_nibbles) /\ prefix_len = Len(nibbles)
           THEN Stored(Leaf(key, value))
           ELSE
             LET prefix == IF prefix_len > 0 THEN SliceTo(existing_key, prefix_len)
                           ELSE <<>>
                 has_existing == prefix_len < Len(existing_nibbles)
                 existing_leaf == Leaf(existing_key, existing_value)
                 c1 == IF has_existing
                       THEN MapInsert(EmptyMap, existing_nibbles[prefix_len + 1],
                                      existing_leaf)
                       ELSE EmptyMap
                 has_new == prefix_len < Len(nibbles)
                 new_leaf == Leaf(key, value)
                 c2 == IF has_new
                       THEN MapInsert(c1, nibbles[prefix_len + 1], new_leaf)
                       ELSE c1
                 branch == Branch(prefix, c2,
                                  IF prefix_len = Len(nibbles) THEN value ELSE None)
             IN IF has_existing /\ ~IsOk(hash_node(existing_leaf))
                THEN hash_node(existing_leaf)
                ELSE IF has_new /\ ~IsOk(hash_node(new_leaf))
                THEN hash_node(new_leaf)
                ELSE Stored(branch)
    ELSE
        \* `Node::Branch { prefix, mut children, value }`: the pattern binds
        \* `value` to the branch's own value, which hides the parameter `value`
        \* in the whole arm
        LET prefix == node.prefix
            children == node.children
            own_value == node.value
            prefix_nibbles == to_nibbles(prefix)
            prefix_len == common_prefix(prefix_nibbles, nibbles)
        IN IF prefix_len < Len(prefix_nibbles)
           THEN
             LET new_prefix == SliceTo(prefix, prefix_len)
                 remaining_prefix == SliceFrom(prefix, prefix_len)
                 sub_branch == Branch(remaining_prefix, children, own_value)
                 new_leaf == Leaf(key, own_value)
             IN IF ~IsOk(hash_node(sub_branch)) THEN hash_node(sub_branch)
                ELSE IF ~IsOk(hash_node(new_leaf)) THEN hash_node(new_leaf)
                ELSE IF prefix_len >= Len(nibbles) THEN Panic
                ELSE Stored(Branch(new_prefix,
                                   MapInsert(MapInsert(EmptyMap,
                                                       prefix_nibbles[prefix_len + 1],
                                                       sub_branch),
                                             nibbles[prefix_len + 1], new_leaf),
                                   None))
           ELSE
             LET remaining_nibbles == SliceFrom(nibbles, prefix_len)
             IN IF remaining_nibbles = <<>>
                THEN Stored(Branch(prefix, children, own_value))
                ELSE
                  LET child_nibble == remaining_nibbles[1]
                      child == IF child_nibble \in DOMAIN children
                               THEN children[child_nibble] ELSE Empty
                      removed == MapRemove(children, child_nibble)
                      new_child == insert_at(child, key, remaining_nibbles, own_value)
                  IN IF ~IsOk(new_child) THEN new_child
                     ELSE IF ~IsOk(hash_node(new_child.v)) THEN hash_node(new_child.v)
                     ELSE Stored(Branch(prefix,
                                        MapInsert(removed, child_nibble, new_child.v),
                                        IF Len(remaining_nibbles) = 1 THEN own_value
                                        ELSE None))

\* the result of insert and the root it leaves
insert(r, key, value) ==
    IF ~IsOk(verify_key(key)) THEN [res |-> verify_key(key), root |-> r]
    ELSE LET key_nibbles == to_nibbles(key)
             n == insert_at(r, key, key_nibbles, Some(value))
         IN IF IsOk(n) THEN [res |-> Ok(<<>>), root |-> n.v]
            ELSE [res |-> n, root |-> r]

(***************************************************************************)
(* trie.rs: get                                                            *)
(***************************************************************************)
RECURSIVE get_at(_, _, _)
get_at(node, nibbles, original_key) ==
    IF node.t = "Empty" THEN Ok(None)
    ELSE IF node.t = "Leaf"
    THEN IF original_key = node.key THEN Ok(node.value) ELSE Ok(None)
    ELSE LET prefix_nibbles == to_nibbles(node.prefix)
             prefix_len == common_prefix(nibbles, prefix_nibbles)
         IN IF prefix_len = Len(prefix_nibbles)
            THEN IF Len(nibbles) = prefix_len THEN Ok(node.value)
                 ELSE IF Len(nibbles) > prefix_len
                         /\ nibbles[prefix_len + 1] \in DOMAIN node.children
                 THEN get_at(node.children[nibbles[prefix_len + 1]],
                             SliceFrom(nibbles, prefix_len + 1), original_key)
                 ELSE Ok(None)
            ELSE Ok(None)

get(r, key) ==
    IF ~IsOk(verify_key(key)) THEN verify_key(key)
    ELSE get_at(r, to_nibbles(key), key)

(***************************************************************************)
(* trie.rs: delete.  delete_at yields Ok([node, value]) or an error.       *)
(***************************************************************************)
Pair(node, value) == Ok([node |-> node, value |-> value])

\* `let hash = self.hash_node(&n)?; ...; Ok((n, value))`
StoredPair(n, value) == LET h == hash_node(n) IN IF IsOk(h) THEN Pair(n, value) ELSE h

\* the child was deleted (lines 468-531): drop, collapse or keep the branch
collapse(prefix, children, value, deleted_value) ==
    IF children = EmptyMap /\ value = None
    THEN Pair(Empty, deleted_value)
    ELSE IF Cardinality(DOMAIN children) = 1 /\ value = None
    THEN LET remaining_nibble == CHOOSE s \in DOMAIN children : TRUE
             child == children[remaining_nibble]
         IN IF child.t = "Leaf"
            THEN StoredPair(Leaf(Append(prefix, remaining_nibble), child.value),
                            deleted_value)
            ELSE IF child.t = "Branch"
            THEN StoredPair(Branch(Append(prefix, remaining_nibble) \o child.prefix,
                                   child.children, child.value),
                            deleted_value)
            ELSE Pair(Empty, deleted_value)
    ELSE StoredPair(Branch(prefix, children, value), deleted_value)

RECURSIVE delete_at(_, _, _)
delete_at(node, nibbles, original_key) ==
    IF node.t = "Empty" THEN Pair(Empty, None)
    ELSE IF node.t = "Leaf" THEN
        LET existing_nibbles == to_nibbles(node.key)
            original_nibbles == to_nibbles(original_key)
        IN IF existing_nibbles # original_nibbles
           THEN Pair(node, None)
           ELSE Pair(Empty, node.value)
    ELSE
        LET prefix == node.prefix
            children == node.children
            value == node.value
            prefix_nibbles == to_nibbles(prefix)
            common_len == common_prefix(prefix_nibbles, nibbles)
            remaining_nibbles == SliceFrom(nibbles, common_len)
        IN IF common_len < Len(prefix_nibbles) THEN Pair(node, None)
           ELSE IF remaining_nibbles = <<>>
           THEN IF children = EmptyMap THEN Pair(Empty, value)
                ELSE StoredPair(Branch(prefix, children, None), value)
           ELSE
             LET child_nibble == remaining_nibbles[1]
             IN IF child_nibble \in DOMAIN children
                THEN LET removed == MapRemove(children, child_nibble)
                         d == delete_at(children[child_nibble],
                                        SliceFrom(remaining_nibbles, 1), original_key)
                     IN IF ~IsOk(d) THEN d
                        ELSE IF d.v.node.t = "Empty"
                        THEN collapse(prefix, removed, value, d.v.value)
                        ELSE StoredPair(Branch(prefix,
                                               MapInsert(removed, child_nibble, d.v.node),
                                               value),
                                        d.v.value)
                ELSE Pair(node, None)

\* a delete that takes the root out of the trie before it walks it, and puts
\* a root back only on success
delete_take(r, key) ==
    IF ~IsOk(verify_key(key)) THEN [res |-> verify_key(key), root |-> r]
    ELSE LET d == delete_at(r, to_nibbles(key), key)
         IN IF ~IsOk(d) THEN [res |-> d, root |-> Empty]
            ELSE IF d.v.node.t = "Empty" THEN [res |-> Ok(d.v.value), root |-> Empty]
            ELSE IF ~IsOk(hash_node(d.v.node))
            THEN [res |-> hash_node(d.v.node), root |-> Empty]
            ELSE [res |-> Ok(d.v.value), root |-> d.v.node]

\* the result of delete and the root it leaves
delete(r, key) ==
    IF ~IsOk(verify_key(key)) THEN [res |-> verify_key(key), root |-> r]
    ELSE LET d == delete_at(r, to_nibbles(key), key)
         IN IF ~IsOk(d) THEN [res |-> d, root |-> r]
            ELSE IF d.v.node.t = "Empty" THEN [res |-> Ok(d.v.value), root |-> Empty]
            ELSE IF ~IsOk(hash_node(d.v.node))
            THEN [res |-> hash_node(d.v.node), root |-> r]
            ELSE [res |-> Ok(d.v.value), root |-> d.v.node]

\* trie.rs: root_hash
root_hash(r) == hash_node(r)

(***************************************************************************)
(* proof.rs: a MerkleProof is [key, value, proof], proof a sequence of     *)
(* steps <<selector, digest>>.                                             *)
(***************************************************************************)
MerkleProof(key, value, proof) == [key |-> key, value |-> value, proof |-> proof]
Found(value_bytes, proof) == Ok([value |-> value_bytes, proof |-> proof])

\* every call from generate_proof and from generate_proof_at itself passes an
\* empty `proof` accumulator, so the parameter is left out
RECURSIVE generate_proof_at(_, _)
generate_proof_at(node, nibbles) ==
    LET node_hash == hash_node(node)
    IN IF ~IsOk(node_hash) THEN node_hash
       ELSE IF node.t = "Empty" THEN Found(<<>>, <<>>)
       ELSE IF node.t = "Leaf" THEN
         LET existing_nibbles == to_nibbles(node.key)
         IN IF nibbles # existing_nibbles THEN Found(<<>>, <<>>)
            ELSE IF existing_nibbles = <<>> THEN Panic
            ELSE Found(unwrap_or_empty(node.value),
                       << <<existing_nibbles[1], node_hash.v>> >>)
       ELSE
         LET prefix_nibbles == to_nibbles(node.prefix)
             common_len == common_prefix(prefix_nibbles, nibbles)
             remaining_nibbles == SliceFrom(nibbles, common_len)
         IN IF common_len < Len(prefix_nibbles) THEN Found(<<>>, <<>>)
            ELSE IF remaining_nibbles = <<>>
            THEN IF unwrap_or_empty(node.value) # <<>>
                 THEN Found(unwrap_or_empty(node.value), << <<0, node_hash.v>> >>)
                 ELSE Found(<<>>, <<>>)
            ELSE
              LET child_nibble == remaining_nibbles[1]
              IN IF child_nibble \in DOMAIN node.children
                 THEN LET child == node.children[child_nibble]
                          sub == generate_proof_at(child, SliceFrom(remaining_nibbles, 1))
                      IN IF ~IsOk(sub) THEN sub
                         ELSE IF sub.v.value # <<>>
                         THEN IF ~IsOk(hash_node(child)) THEN hash_node(child)
                              ELSE Found(sub.v.value,
                                         << <<0, node_hash.v>>,
                                            <<child_nibble, hash_node(child).v>> >>
                                         \o sub.v.proof)
                         ELSE Found(<<>>, <<>>)
                 ELSE Found(<<>>, <<>>)

generate_proof(r, key) ==
    IF key = <<>> THEN Err("InvalidKey")
    ELSE LET g == generate_proof_at(r, to_nibbles(key))
         IN IF ~IsOk(g) THEN g
            ELSE IF g.v.proof = <<>> \/ g.v.value = <<>> THEN Err("NodeNotFound")
            ELSE Ok(MerkleProof(key, g.v.value, g.v.proof))

\* a verifier loop that never compares current_hash with the digest of a step
RECURSIVE verify_steps_lax(_, _, _, _)
verify_steps_lax(steps, i, current, rh) ==
    IF i > Len(steps) THEN Ok(current = rh)
    ELSE LET nibble == steps[i][1]
             hash == steps[i][2]
         IN IF hash = <<>> THEN Err("InvalidProof")
            ELSE IF i < Len(steps)
            THEN IF steps[i + 1][1] = 0
                 THEN LET b == hash_branch(<<>>, << <<nibble, current>> >>, <<>>)
                      IN IF ~IsOk(b) THEN b
                         ELSE verify_steps_lax(steps, i + 1, b.v, rh)
                 ELSE verify_steps_lax(steps, i + 1, hash, rh)
            ELSE verify_steps_lax(steps, i + 1, current, rh)

\* a verifier loop that reports a digest that does not match as a malformed proof
RECURSIVE verify_steps_strict(_, _, _, _)
verify_steps_strict(steps, i, current, rh) ==
    IF i > Len(steps) THEN Ok(current = rh)
    ELSE LET nibble == steps[i][1]
             hash == steps[i][2]
         IN IF hash = <<>> THEN Err("InvalidProof")
            ELSE IF current # hash THEN Err("InvalidProof")
            ELSE IF i < Len(steps)
            THEN IF steps[i + 1][1] = 0
                 THEN LET b == hash_branch(<<>>, << <<nibble, current>> >>, <<>>)
                      IN IF ~IsOk(b) THEN b
                         ELSE verify_steps_strict(steps, i + 1, b.v, rh)
                 ELSE verify_steps_strict(steps, i + 1, hash, rh)
            ELSE verify_steps_strict(steps, i + 1, current, rh)

\* the loop of verify_proof from step i on, current_hash = current
RECURSIVE verify_steps(_, _, _, _)
verify_steps(steps, i, current, rh) ==
    IF i > Len(steps) THEN Ok(current = rh)
    ELSE LET nibble == steps[i][1]
             hash == steps[i][2]
         IN IF hash = <<>> THEN Err("InvalidProof")
            ELSE IF current # hash THEN Ok(FALSE)
            ELSE IF i < Len(steps)
            THEN IF steps[i + 1][1] = 0
                 THEN LET b == hash_branch(<<>>, << <<nibble, current>> >>, <<>>)
                      IN IF ~IsOk(b) THEN b
                         ELSE verify_steps(steps, i + 1, b.v, rh)
                 ELSE verify_steps(steps, i + 1, hash, rh)
            ELSE verify_steps(steps, i + 1, current, rh)

verify_proof(rh, proof) ==
    IF proof.key = <<>> THEN Err("InvalidKey")
    ELSE IF proof.proof = <<>> THEN Err("InvalidProof")
    ELSE LET h == hash_leaf(proof.key, proof.value)
         IN IF ~IsOk(h) THEN h
            ELSE verify_steps(proof.proof, 1, h.v, rh)

(***************************************************************************)
(* The state machine.                                                      *)
(***************************************************************************)
\* the proofs handed to verify_proof
\* a byte vector of digest size that is the digest of nothing the trie hashes
Flip(d) == Sha256(d[2] \o <<U8>>)

Generated(r) ==
    {generate_proof(r, key).v : key \in {k \in Keys : IsOk(generate_proof(r, k))}}

SetDigest(p, i, d) ==
    MerkleProof(p.key, p.value, [p.proof EXCEPT ![i] = <<p.proof[i][1], d>>])

TamperPool(r, d) ==
    ({<<>>, hash_empty, Flip(d)}
     \cup (IF IsOk(root_hash(r)) THEN {root_hash(r).v} ELSE {})) \ {d}

Tampered(r) ==
    UNION {UNION {{SetDigest(p, i, d) : d \in TamperPool(r, p.proof[i][2])}
                  : i \in 1..Len(p.proof)}
           : p \in Generated(r)}

\* the digests a verifier expects for key, value and the selectors sels, so that
\* every comparison of a step's digest succeeds
RECURSIVE Expected(_, _, _)
Expected(sels, i, current) ==
    IF i > Len(sels) THEN <<>>
    ELSE <<<<sels[i], current>>>>
         \o Expected(sels, i + 1,
                     IF i < Len(sels) /\ sels[i + 1] = 0
                     THEN hash_branch(<<>>, << <<sels[i], current>> >>, <<>>).v
                     ELSE current)

Chain(key, value, sels) == MerkleProof(key, value, Expected(sels, 1, hash_leaf(key, value).v))

\* the leaves of a tree
RECURSIVE Leaves(_)
Leaves(node) ==
    IF node.t = "Leaf" THEN {node}
    ELSE IF node.t = "Branch"
    THEN UNION {Leaves(node.children[s]) : s \in DOMAIN node.children}
    ELSE {}

\* proofs written by a party that knows the leaves of the tree: for the key and
\* the value bytes of each leaf, one step, or one step folded into a branch
Forged(r) ==
    UNION {{Chain(l.key, unwrap_or_empty(l.value), <<l.key[1]>>)}
           \cup {Chain(l.key, unwrap_or_empty(l.value), <<s, 0>>) : s \in Bytes}
           : l \in Leaves(r)}

ProofInputs(r) == Generated(r) \cup Tampered(r) \cup Forged(r)

MutOps == {"new", "insert", "delete"}
\* get, root_hash, generate_proof take &self and verify_proof takes no trie at
\* all: none can change the trie, so a behaviour is followed up to its first
\* read-only call, whose result is the last thing observed
Querying == last.op \notin MutOps

Init ==
    /\ root = Empty
    /\ prev = Empty
    /\ last = NoOp
    /\ nops = 0
    /\ hist = <<>>

Insert(key, value) ==
    /\ ~Querying
    /\ nops < MaxOps
    /\ LET r == insert(root, key, value)
       IN /\ root' = r.root
          /\ last' = Call("insert", key, value, r.res)
    /\ prev' = root
    /\ nops' = nops + 1
    /\ UNCHANGED hist

Delete(key) ==
    /\ ~Querying
    /\ nops < MaxOps
    /\ LET r == delete(root, key)
       IN /\ root' = r.root
          /\ last' = Call("delete", key, <<>>, r.res)
    /\ prev' = root
    /\ nops' = nops + 1
    /\ UNCHANGED hist

Get(key) ==
    /\ ~Querying
    /\ last' = Call("get", key, <<>>, get(root, key))
    /\ prev' = root
    /\ UNCHANGED <<root, nops, hist>>

RootHash ==
    /\ ~Querying
    /\ last' = Call("root_hash", <<>>, <<>>, root_hash(root))
    /\ prev' = root
    /\ UNCHANGED <<root, nops, hist>>

GenerateProof(key) ==
    /\ ~Querying
    /\ last' = Call("generate_proof", key, <<>>, generate_proof(root, key))
    /\ prev' = root
    /\ UNCHANGED <<root, nops, hist>>

\* verify_proof is handed the digest root_hash() has just returned
VerifyProof(p) ==
    /\ ~Querying
    /\ IsOk(root_hash(root))
    /\ last' = [op |-> "verify_proof", key |-> p.key, value |-> p.value,
                proof |-> p.proof, digest |-> root_hash(root).v,
                res |-> verify_proof(root_hash(root).v, p)]
    /\ prev' = root
    /\ UNCHANGED <<root, nops, hist>>

Next ==
    \/ \E key \in InputKeys, value \in Values : Insert(key, value)
    \/ \E key \in InputKeys : Delete(key)
    \/ \E key \in InputKeys : Get(key)
    \/ RootHash
    \/ \E key \in InputKeys : GenerateProof(key)
    \/ \E p \in ProofInputs(root) : VerifyProof(p)

Spec == Init /\ [][Next]_vars

(***************************************************************************)
(* Building a trie from a set of pairs with distinct keys, then deleting   *)
(* one of them: hist holds the pairs in the order of their insertion.      *)
(***************************************************************************)
HistKeys == {hist[i][1] : i \in 1..Len(hist)}

BuildInsert(key, value) ==
    /\ last.op \in {"new", "insert"}
    /\ Len(hist) < MaxPairs
    /\ key \notin HistKeys
    /\ LET r == insert(root, key, value)
       IN /\ root' = r.root
          /\ last' = Call("insert", key, value, r.res)
    /\ prev' = root
    /\ nops' = nops + 1
    /\ hist' = Append(hist, <<key, value>>)

BuildDelete(key) ==
    /\ last.op = "insert"
    /\ key \in HistKeys
    /\ LET r == delete(root, key)
       IN /\ root' = r.root
          /\ last' = Call("delete", key, <<>>, r.res)
    /\ prev' = root
    /\ nops' = nops + 1
    /\ UNCHANGED hist

NextBuild ==
    \/ \E key \in Keys, value \in Values : BuildInsert(key, value)
    \/ \E key \in Keys : BuildDelete(key)

SpecBuild == Init /\ [][NextBuild]_vars

\* the root after inserting the pairs of a sequence, in its order, into a new trie
RECURSIVE BuildRoot(_)
BuildRoot(pairs) ==
    IF pairs = <<>> THEN Empty
    ELSE LET e == pairs[Len(pairs)]
         IN insert(BuildRoot(SubSeq(pairs, 1, Len(pairs) - 1)), e[1], e[2]).root

\* the orders in which the pairs of a sequence can be inserted
Orders(pairs) ==
    {[i \in 1..Len(pairs) |-> pairs[f[i]]] : f \in Permutations(1..Len(pairs))}

\* the pairs of a sequence whose key is not key, in their order
RECURSIVE Without(_, _)
Without(pairs, key) ==
    IF pairs = <<>> THEN <<>>
    ELSE IF Head(pairs)[1] = key THEN Without(Tail(pairs), key)
    ELSE <<Head(pairs)>> \o Without(Tail(pairs), key)

(***************************************************************************)
(* The functions that take no trie: verify_proof, called with any root     *)
(* digest and any proof (SpecStatic), and hash_branch, called with any     *)
(* list of children its callers can build (SpecHash).                      *)
(***************************************************************************)
\* proofs of no step, of a step with no digest, of steps that match the hash
\* the verifier has reached and of steps that do not
DigestPool(key, value) ==
    LET hl == hash_leaf(key, value)
    IN {<<>>, hash_empty}
       \cup (IF IsOk(hl)
             THEN {hl.v} \cup {hash_branch(<<>>, << <<s, hl.v>> >>, <<>>).v : s \in Bytes}
             ELSE {})

\* the lists of n steps for a key and a value
RECURSIVE StepListsOf(_, _, _)
StepListsOf(n, key, value) ==
    IF n = 0 THEN {<<>>}
    ELSE {Append(st, <<b, d>>) : st \in StepListsOf(n - 1, key, value),
                                 b \in Bytes, d \in DigestPool(key, value)}

StepLists(key, value) == UNION {StepListsOf(n, key, value) : n \in 0..MaxSteps}

ProofKeys == {EmptyKey} \cup {<<b>> : b \in Bytes}

ShapeProofs ==
    UNION {{MerkleProof(kv[1], kv[2], st) : st \in StepLists(kv[1], kv[2])}
           : kv \in ProofKeys \X Values}

\* the root digests tried: none, and every digest some proof compares or reaches
RootDigests == UNION {DigestPool(kv[1], kv[2]) : kv \in ProofKeys \X Values}

VerifyAny(rh, p) ==
    /\ last.op = "new"
    /\ last' = [op |-> "verify_proof", key |-> p.key, value |-> p.value,
                proof |-> p.proof, digest |-> rh, res |-> verify_proof(rh, p)]
    /\ UNCHANGED <<root, prev, nops, hist>>

NextStatic == \E p \in ShapeProofs, rh \in RootDigests : VerifyAny(rh, p)

SpecStatic == Init /\ [][NextStatic]_vars

\* hash_branch is private to the crate: hash_node hands it the entries of a
\* children map, in the order of the map's iterator, and verify_proof a single
\* pair, so the selectors of a list are distinct
ChildDigests == {hash_empty} \cup {hash_leaf(<<b>>, <<>>).v : b \in Bytes}

ChildLists ==
    {c \in UNION {[1..n -> Bytes \X ChildDigests] : n \in 0..Cardinality(Bytes)} :
        \A i, j \in DOMAIN c : i # j => c[i][1] # c[j][1]}

HashBranch(prefix, children_data, value) ==
    /\ last.op = "new"
    /\ last' = [op |-> "hash_branch", key |-> prefix, value |-> value,
                proof |-> children_data, digest |-> <<>>,
                res |-> hash_branch(prefix, children_data, value)]
    /\ UNCHANGED <<root, prev, nops, hist>>

NextHash ==
    \E prefix \in ProofKeys, c \in ChildLists, value \in Values :
        HashBranch(prefix, c, value)

SpecHash == Init /\ [][NextHash]_vars

(***************************************************************************)
(* Calls with keys at the limits of verify_key: no byte, one byte, the     *)
(* longest key accepted (two of them, which differ in their last byte) and *)
(* one byte more.                                                          *)
(***************************************************************************)
MaxLenKey == [i \in 1..MaxKeyBytes |-> 0]

EdgeKeys ==
    {EmptyKey, <<0>>, MaxLenKey, [MaxLenKey EXCEPT ![MaxKeyBytes] = 1], TooLongKey}

NextEdge ==
    \/ \E key \in EdgeKeys, value \in Values : Insert(key, value)
    \/ \E key \in EdgeKeys : Delete(key)
    \/ \E key \in EdgeKeys : Get(key)

SpecEdge == Init /\ [][NextEdge]_vars

(***************************************************************************)
(* Inserts of keys of up to MaxDeepLen bytes into a new trie: a Branch     *)
(* whose prefix has two bytes, and a path that ends inside it.             *)
(***************************************************************************)
DeepKeys == UNION {[1..n -> Bytes] : n \in 1..MaxDeepLen}

\* an index out of range aborts the caller: no call follows it
InsertDeep(key, value) ==
    /\ nops < MaxDeepOps
    /\ last.res.k # "Panic"
    /\ LET r == insert(root, key, value)
       IN /\ root' = r.root
          /\ last' = Call("insert", key, value, r.res)
    /\ prev' = root
    /\ nops' = nops + 1
    /\ UNCHANGED hist

NextDeep == \E key \in DeepKeys, value \in Values : InsertDeep(key, value)

SpecDeep == Init /\ [][NextDeep]_vars

(***************************************************************************)
(* The claims.                                                             *)
(***************************************************************************)
Is(r, v) == r.k = "Ok" /\ r.v = v

\* a tree without its values: branches, prefixes, selectors and leaf keys
RECURSIVE Shape(_)
Shape(node) ==
    IF node.t = "Leaf" THEN [t |-> "Leaf", key |-> node.key]
    ELSE IF node.t = "Branch"
    THEN [t |-> "Branch", prefix |-> node.prefix,
          children |-> [s \in DOMAIN node.children |-> Shape(node.children[s])]]
    ELSE node

\* C1: once insert(key, value) has returned Ok for a valid key, get(key)
\* returns Some(value).
C1_RoundTrip ==
    (last.op = "insert" /\ last.key \in Keys /\ IsOk(last.res))
        => Is(get(root, last.key), Some(last.value))

\* C2: where get(key) = Some(v1), insert(key, v2) with v2 # v1 leaves
\* get(key) = Some(v2) and a tree of the same shape.
C2_UpdateInPlace ==
    (/\ last.op = "insert"
     /\ last.key \in Keys
     /\ get(prev, last.key).v # None
     /\ get(prev, last.key).v # Some(last.value))
        => /\ Is(get(root, last.key), Some(last.value))
           /\ Shape(root) = Shape(prev)

\* C3: delete(key) of a valid key returns Ok, after it get(key) returns None
\* and a second delete(key) returns Ok(None).
C3_DeleteThenAbsent ==
    (last.op = "delete" /\ last.key \in Keys)
        => /\ IsOk(last.res)
           /\ Is(get(root, last.key), None)
           /\ Is(delete(root, last.key).res, None)

\* C4: delete(k1) leaves get(k2) as it was for every valid key k2 # k1.
C4_DeleteKeepsOthers ==
    (last.op = "delete" /\ last.key \in Keys)
        => \A k2 \in Keys \ {last.key} : get(root, k2) = get(prev, k2)

\* C5: delete(key) returns Ok(Some(v)) exactly when get(key) returned Some(v)
\* just before the call, and Ok(None) exactly when it returned None.
C5_DeleteReturnsRemoved ==
    (last.op = "delete" /\ last.key \in Keys)
        => Is(last.res, get(prev, last.key).v)

\* C6: the root digest of a trie built from pairs with distinct keys is the
\* same for every order of insertion of the pairs.
C6_DigestDeterminism ==
    (last.op = "insert")
        => \A o \in Orders(hist) : root_hash(BuildRoot(o)) = root_hash(root)

\* C7: inserting the pairs of S and deleting k gives the root digest of a
\* trie built from the pairs of S other than k.
C7_DeleteNormalizes ==
    (last.op = "delete")
        => root_hash(root) = root_hash(BuildRoot(Without(hist, last.key)))

\* C8: for every key with get(key) = Some(v), generate_proof(key) returns a
\* proof with that key and value which verify_proof accepts for root_hash().
C8_ProofSoundness ==
    \A k \in Keys :
        get(root, k).v # None
            => LET g == generate_proof(root, k)
               IN /\ IsOk(g)
                  /\ g.v.key = k
                  /\ Some(g.v.value) = get(root, k).v
                  /\ IsOk(root_hash(root))
                  /\ Is(verify_proof(root_hash(root).v, g.v), TRUE)

\* C9: a proof that verify_proof accepts for root_hash() is a proof of a
\* pair the trie holds: get(p.key) = Some(p.value).
C9_VerifiedIsPresent ==
    (last.op = "verify_proof" /\ Is(last.res, TRUE))
        => Is(get(root, last.key), Some(last.value))

\* last is a call of verify_proof on a proof that generate_proof returns and
\* verify_proof accepts, with the digest of one step replaced by another
\* digest that is not empty
TamperedValid ==
    /\ last.op = "verify_proof"
    /\ \E g \in Generated(root) :
          /\ Is(verify_proof(last.digest, g), TRUE)
          /\ g.key = last.key /\ g.value = last.value
          /\ Len(g.proof) = Len(last.proof)
          /\ \E i \in 1..Len(g.proof) :
                /\ last.proof[i][2] # <<>>
                /\ last.proof[i][2] # g.proof[i][2]
                /\ last.proof = [g.proof EXCEPT ![i] = <<g.proof[i][1], last.proof[i][2]>>]

\* C10: replacing the digest of one step of a generated proof that verifies
\* by another non-empty digest makes verify_proof return Ok(false).
C10_TamperDetected == TamperedValid => Is(last.res, FALSE)

C10_Witness == TamperedValid /\ Is(last.res, FALSE)

IsErr(r, e) == r.k = "Err" /\ r.v = e

\* C11: insert, get and delete return Err(InvalidKey) for the empty key and
\* Err(KeyTooLong) for a key of more than 32 bytes, and neither of the two for
\* a key of 1..32 bytes.
C11_KeyValidation ==
    (last.op \in {"insert", "get", "delete"})
    => /\ (last.key = <<>> => IsErr(last.res, "InvalidKey"))
       /\ (Len(last.key) > MaxKeyBytes => IsErr(last.res, "KeyTooLong"))
       /\ (Len(last.key) \in 1..MaxKeyBytes
           => ~IsErr(last.res, "InvalidKey") /\ ~IsErr(last.res, "KeyTooLong"))

\* a trie that holds a key of 32 bytes has just refused a key of 33 bytes
C11_Witness ==
    /\ last.op = "insert"
    /\ last.key = TooLongKey
    /\ IsErr(last.res, "KeyTooLong")
    /\ get(root, MaxLenKey).k = "Ok"
    /\ get(root, MaxLenKey).v # None

\* C12: whenever insert or delete returns Err, the tree is the tree before the
\* call: get(k) for every key k and root_hash() are unchanged.
C12_NoPartialChange ==
    (last.op \in {"insert", "delete"} /\ last.res.k = "Err")
    => /\ root = prev
       /\ \A k \in Keys : get(root, k) = get(prev, k)
       /\ root_hash(root) = root_hash(prev)

\* a delete of a valid key has failed on a trie that holds keys
C12_Witness ==
    /\ last.op = "delete"
    /\ last.key \in Keys
    /\ last.res.k = "Err"
    /\ root = prev
    /\ \E k \in Keys : get(root, k).v # None

\* C13: for every valid key, insert, get and delete return Ok, and get and
\* delete report a key that is missing as Ok(None).
C13_Totality ==
    (last.op \in {"insert", "get", "delete"} /\ last.key \in Keys)
    => /\ IsOk(last.res)
       /\ (last.op # "insert" /\ Is(get(prev, last.key), None)
           => Is(last.res, None))

\* C14: generate_proof returns Err(InvalidKey) for the empty key and
\* Err(NodeNotFound) for every non-empty key that get reports absent.
C14_ProofErrors ==
    (last.op = "generate_proof")
    => /\ (last.key = <<>> => IsErr(last.res, "InvalidKey"))
       /\ (last.key # <<>> /\ Is(get(root, last.key), None)
           => IsErr(last.res, "NodeNotFound"))

\* C15: verify_proof returns Err(InvalidKey) when proof.key is empty, and
\* Err(InvalidProof) when the step list is empty or any step carries an empty
\* digest, whatever its position and whatever the digests of the other steps.
C15_ShapeErrors ==
    (last.op = "verify_proof")
    => /\ (last.key = <<>> => IsErr(last.res, "InvalidKey"))
       /\ (/\ last.key # <<>>
           /\ \/ last.proof = <<>>
              \/ \E i \in DOMAIN last.proof : last.proof[i][2] = <<>>
           => IsErr(last.res, "InvalidProof"))

\* the shape verify_proof accepts: a key, at least one step, no empty digest
WellShaped ==
    /\ last.key # <<>>
    /\ last.proof # <<>>
    /\ \A i \in DOMAIN last.proof : last.proof[i][2] # <<>>

\* C16: for a proof with a non-empty key, at least one step and only non-empty
\* step digests, and for every root digest, verify_proof returns Ok(true) or
\* Ok(false), never Err.
C16_MismatchIsFalse ==
    (last.op = "verify_proof" /\ WellShaped)
    => last.res.k = "Ok" /\ last.res.v \in BOOLEAN

\* the first step matched, the verifier folded it into a branch hash, and the
\* second step did not match
C16_Witness ==
    /\ last.op = "verify_proof"
    /\ WellShaped
    /\ Len(last.proof) = 2
    /\ last.proof[1][2] = hash_leaf(last.key, last.value).v
    /\ last.proof[2][1] = 0
    /\ last.proof[2][2]
         # hash_branch(<<>>, << <<last.proof[1][1], last.proof[1][2]>> >>, <<>>).v
    /\ Is(last.res, FALSE)

\* C17: two reachable tries that differ in the result of get(k) for a valid
\* key k (Some(empty value) versus None included) have different root_hash()
\* values. The two tries are the one before and the one after a successful
\* insert or delete; the digest is the preimage itself, so it is collision-free.
C17_DigestSensitivity ==
    (/\ last.op \in {"insert", "delete"}
     /\ IsOk(last.res)
     /\ \E k \in Keys : get(prev, k) # get(root, k))
    => root_hash(prev) # root_hash(root)

\* C18: for a fixed prefix and value, hash_branch returns the same digest for
\* every permutation of the same non-empty list of (selector, child digest)
\* pairs.
C18_ChildOrder ==
    (last.op = "hash_branch" /\ last.proof # <<>>)
    => \A o \in Orders(last.proof) :
           hash_branch(last.key, o, last.value) = last.res

\* hash_branch was handed two children with the larger selector first
C18_Witness ==
    /\ last.op = "hash_branch"
    /\ Len(last.proof) >= 2
    /\ last.proof[1][1] > last.proof[2][1]
    /\ last.proof[1][2] # last.proof[2][2]
    /\ IsOk(last.res)

\* every Branch of the tree carries a value or has at least two children
RECURSIVE BranchesSound(_)
BranchesSound(node) ==
    IF node.t # "Branch" THEN TRUE
    ELSE /\ \/ node.value # None
            \/ Cardinality(DOMAIN node.children) >= 2
         /\ \A s \in DOMAIN node.children : BranchesSound(node.children[s])

\* C19: in every trie state reached by successful insert and delete calls,
\* every Branch carries a value or has at least two children.
C19_StructuralInvariant ==
    (last.op \in {"new", "insert", "delete"} /\ IsOk(last.res))
    => BranchesSound(root)

\* C20: for every valid key k2 other than key, get(k2) returns the same result
\* immediately after a successful insert(key, value) as immediately before it.
C20_InsertFrame ==
    (last.op = "insert" /\ last.key \in Keys /\ IsOk(last.res))
    => \A k2 \in Keys \ {last.key} : get(root, k2) = get(prev, k2)

\* the pair of hist with key k is still stored: it was inserted and the delete
\* that ends the behaviour, if any, was not a successful delete of k
StoredPairOf(k, v) ==
    /\ \E i \in DOMAIN hist : hist[i] = <<k, v>>
    /\ ~(last.op = "delete" /\ last.key = k /\ IsOk(last.res))

\* C21: get(k) = Some(v) only if the most recent successful insert with exactly
\* key k stored v and no successful delete(k) came after it; get returns no
\* value for a key never inserted, nor the value stored under another key.
C21_NoPhantom ==
    \A k \in Keys :
        LET g == get(root, k)
        IN (IsOk(g) /\ g.v # None) => StoredPairOf(k, g.v[1])

\* C22: for every valid key and every reachable trie, no index made inside
\* insert_at is out of range, also when the remaining path ends strictly inside
\* a Branch's prefix: insert does not abort.
C22_InsertInBounds ==
    (last.op = "insert" /\ Len(last.key) \in 1..MaxKeyBytes)
    => last.res.k # "Panic"

\* a is a strict prefix of b
IsStrictPrefix(a, b) == Len(a) < Len(b) /\ SubSeq(b, 1, Len(a)) = a

\* C23: when insert(key, value) reaches a Leaf holding existingKey and one of
\* the two keys is a strict prefix of the other, the resulting Branch carries
\* the shorter key's value as its own value and the longer key as its only
\* child, and get returns each key's own value, whichever was inserted first.
C23_StrictPrefixInsert ==
    (/\ last.op = "insert"
     /\ IsOk(last.res)
     /\ prev.t = "Leaf"
     /\ IsStrictPrefix(prev.key, last.key) \/ IsStrictPrefix(last.key, prev.key))
    => LET new_first == IsStrictPrefix(last.key, prev.key)
           short_value == IF new_first THEN Some(last.value) ELSE prev.value
           long_leaf == IF new_first THEN prev
                        ELSE Leaf(last.key, Some(last.value))
       IN /\ root.t = "Branch"
          /\ root.value = short_value
          /\ \E s \in Bytes : root.children = MapInsert(EmptyMap, s, long_leaf)
          /\ Is(get(root, prev.key), prev.value)
          /\ Is(get(root, last.key), Some(last.value))

\* the call reaches the root Branch, matches its whole prefix and has path
\* bytes left
Descends ==
    /\ last.op = "insert"
    /\ IsOk(last.res)
    /\ prev.t = "Branch"
    /\ common_prefix(prev.prefix, last.key) = Len(prev.prefix)
    /\ Len(last.key) > Len(prev.prefix)

\* some node of the tree carries the value
RECURSIVE Carries(_, _)
Carries(node, value) ==
    IF node.t = "Leaf" THEN node.value = value
    ELSE IF node.t = "Branch"
    THEN \/ node.value = value
         \/ \E s \in DOMAIN node.children : Carries(node.children[s], value)
    ELSE FALSE

\* C24: when insert fully matches a Branch's prefix and descends into (or
\* creates) a child, the rewritten Branch carries the own value it had before,
\* whatever the number of path bytes remaining, and the value handed down to
\* the child (here an absent child or a Leaf) is the value being inserted.
C24_DeeperInsertFrame ==
    Descends
    => LET sel == last.key[Len(prev.prefix) + 1]
       IN /\ root.t = "Branch"
          /\ root.value = prev.value
          /\ (sel \notin DOMAIN prev.children \/ prev.children[sel].t = "Leaf")
             => /\ sel \in DOMAIN root.children
                /\ Carries(root.children[sel], Some(last.value))

\* C25: when insert(key, value) fully matches a Branch's prefix and no path
\* bytes remain, the resulting Branch has the inserted value as its own value,
\* with its prefix and children unchanged.
C25_BranchValueReplaced ==
    (/\ last.op = "insert"
     /\ IsOk(last.res)
     /\ prev.t = "Branch"
     /\ last.key = prev.prefix)
    => root = Branch(prev.prefix, prev.children, Some(last.value))

\* the call reaches the root Branch and leaves its prefix at position p, with
\* path bytes left
Splits ==
    /\ last.op = "insert"
    /\ IsOk(last.res)
    /\ prev.t = "Branch"
    /\ common_prefix(prev.prefix, last.key) < Len(prev.prefix)
    /\ common_prefix(prev.prefix, last.key) < Len(last.key)

\* C26: when insert reaches a Branch with prefix P and the path diverges from P
\* at position p < |P|, the result is a Branch with prefix P[..p], no own value
\* and two children: at selector P[p] the original branch with prefix P[p+1..]
\* and its children and value, at selector path[p] a Leaf holding the inserted
\* key and value; every key retrievable before is retrievable with its value.
C26_BranchSplit ==
    Splits
    => LET p == common_prefix(prev.prefix, last.key)
           sub == Branch(SliceFrom(prev.prefix, p + 1), prev.children, prev.value)
           leaf == Leaf(last.key, Some(last.value))
       IN /\ root = Branch(SliceTo(prev.prefix, p),
                           MapInsert(MapInsert(EmptyMap, prev.prefix[p + 1], sub),
                                     last.key[p + 1], leaf),
                           None)
          /\ \A k \in Keys : get(prev, k).v # None => get(root, k) = get(prev, k)

\* C27: the key stored in every Leaf is a key that was passed to a successful
\* insert; when delete collapses a Branch onto its single remaining Leaf
\* child, that Leaf keeps the key it stored before the collapse.
C27_LeafKeepsKey ==
    \A l \in Leaves(root) : l.key \in HistKeys

\* the largest number of Branch nodes on a path from the node downwards
RECURSIVE Depth(_)
Depth(node) ==
    IF node.t # "Branch" THEN 0
    ELSE LET below == {Depth(node.children[s]) : s \in DOMAIN node.children}
         IN 1 + (IF below = {} THEN 0
                 ELSE CHOOSE d \in below : \A e \in below : e <= d)

\* C28: the number of Branch nodes on any path from the root never exceeds the
\* length of the longest key ever inserted (the keys inserted here have at
\* most MaxKeyLen bytes), and inserting again a key that is already stored
\* does not increase the depth.
C28_DepthBounded ==
    /\ Depth(root) <= MaxKeyLen
    /\ (last.op = "insert" /\ IsOk(last.res) /\ get(prev, last.key).v # None)
       => Depth(root) <= Depth(prev)

\* a proof of two steps whose first digest is the leaf hash of its key and value
FirstStepMatches ==
    /\ last.op = "verify_proof"
    /\ last.key # <<>>
    /\ Len(last.proof) = 2
    /\ last.proof[1][2] = hash_leaf(last.key, last.value).v
    /\ last.proof[2][2] # <<>>

\* C29: when a step's digest equals the current digest and the next step's
\* selector is not the branch marker 0, the current digest becomes the next
\* step's recorded digest; when the next selector is 0 it becomes
\* hash_branch([], [(this step's selector, current)], []).  On a proof of two
\* steps whose first step matches: the second step is compared with that
\* digest, and the digest left after it is compared with the root digest.
C29_StepAdvance ==
    FirstStepMatches
    => LET folded == hash_branch(<<>>, << last.proof[1] >>, <<>>).v
           current == IF last.proof[2][1] = 0 THEN folded ELSE last.proof[2][2]
       IN IF last.proof[2][2] = current
          THEN Is(last.res, current = last.digest)
          ELSE Is(last.res, FALSE)

\* no Branch of the tree has an empty children map, no Leaf an empty key
RECURSIVE Hashable(_)
Hashable(node) ==
    IF node.t = "Leaf" THEN node.key # <<>>
    ELSE IF node.t = "Branch"
    THEN /\ DOMAIN node.children # {}
         /\ \A s \in DOMAIN node.children : Hashable(node.children[s])
    ELSE TRUE

\* C30: in every trie state reached by insert and delete calls, successful
\* or failed, root_hash() returns Ok: no Branch with an empty children map and
\* no Leaf with an empty key is part of the stored tree.
C30_RootHashTotal ==
    /\ IsOk(root_hash(root))
    /\ Hashable(root)

\* a delete has failed on a Branch that would be left with no child, and the
\* trie it left can be hashed
C30_Witness ==
    /\ last.op = "delete"
    /\ IsErr(last.res, "InvalidBranch")
    /\ root.t = "Branch"
    /\ IsOk(root_hash(root))

====
